---- MODULE Spec2Model ----
(***************************************************************************)
(* A model of deans_utilities/memory.h and deans_utilities/ranges.h:       *)
(* region, the bounded writers, resource (the owned block),                *)
(* resource_allocator and resource_pool.                                   *)
(*                                                                         *)
(* Addresses are natural numbers, 0 is nullptr.  A failed assert is the    *)
(* fatal outcome: the object that ran it goes to the state "fatal" and     *)
(* nothing after the assert is executed.                                   *)
(***************************************************************************)
EXTENDS Integers, Sequences, FiniteSets, Bags

\* ------------------------------------------------------------------ bounds
MaxResourceSize == 2
MaxAllocationAmount == 2
MaxCount == 2
MaxBlocks == 6
MaxFree == 3
MaxHeld == 3
MaxObjects == 3
MaxBuffers == 2
AddrBits == 4
MaxStart == 2
MaxRegionSize == 3
Uint32Bits == 3
MaxStrLen == 2
MaxUnsafeSize == 4

VARIABLES
    pState,            \* resource_pool: "unconstructed", "live" or "fatal"
    resourceSize,      \* resource_pool::resourceSize
    allocationAmount,  \* resource_pool::allocationAmount
    available,         \* resource_pool::available, the free list
    regions,           \* resource_allocator::regions, the owned blocks
    heap,              \* the free store: live buffers, next address, bad deletes
    ret,               \* the value the last call returned, a sequence of regions
    call,              \* the last call, see Call
    held,              \* the regions the callers hold, a bag
    relLog,            \* regions released since the last acquire, oldest first
    nAcquire,          \* acquire() calls since construction, while no other call was made
    onlyAcquire,       \* no other call than acquire() since construction
    obtained,          \* every region a call of acquire has returned so far
    aState,            \* a resource_allocator used on its own: "live" or "fatal"
    objs,              \* resource objects: each one's ptr and size
    alive,             \* the resource objects within their lifetime
    rState,            \* the program holding them: "live" or "fatal"
    rcall,             \* the last operation on them, see RCall
    wState,            \* writer: "unconstructed", "live", "fatal", "crashed", "overrun"
    wRegion,           \* writer's region base: startPtr and endPtr
    writeStart,        \* writer_base::writeStart, the cursor
    mem,               \* the bytes of the address space
    wRet,              \* what the last write returned
    wCall,             \* the last writer call, see WCall
    swState,           \* small_writer: "unconstructed", "live", "fatal", "crashed", "overrun"
    swBufferEnd,       \* small_writer::bufferEnd
    swWriteStart,      \* small_writer's writer_base::writeStart, its cursor
    swMem,             \* the bytes of the address space the small_writer writes to
    swRet,             \* what the small_writer's last write returned
    uState,            \* unsafe::writer: "unconstructed" or "live"
    writeDest,         \* unsafe::writer::writeDest
    uCall              \* the last unsafe::writer call, see UCall

poolVars == <<pState, resourceSize, allocationAmount, available, regions, heap,
              ret, call, held, relLog, nAcquire, onlyAcquire, obtained>>

\* The pool's variables other than the free store.
poolFrame == <<pState, resourceSize, allocationAmount, available, regions, ret, call,
               held, relLog, nAcquire, onlyAcquire, obtained>>

resVars == <<objs, alive, rState, rcall>>

writerVars == <<wState, wRegion, writeStart, mem, wRet, wCall>>

smallVars == <<swState, swBufferEnd, swWriteStart, swMem, swRet>>

unsafeVars == <<uState, writeDest, uCall>>

vars == <<poolVars, aState, resVars, writerVars, smallVars, unsafeVars>>

\* ------------------------------------------------------------------ region
\* region(): both pointers null.
region_null == [startPtr |-> 0, endPtr |-> 0]

\* region(uint8_t *start, uint8_t *end)
region_of(start, end) == [startPtr |-> start, endPtr |-> end]

\* region(uint8_t *start, uint32_t size): region(start, start + size), the sum
\* in pointer arithmetic of AddrBits bits.
region_of_size(start, size) == region_of(start, (start + size) % (2 ^ AddrBits))

\* uint32_t region::size() const: the pointer difference returned as uint32_t.
region_size(r) == (r.endPtr - r.startPtr) % (2 ^ Uint32Bits)

\* ---------------------------------------------------------------- free store
\* new uint8_t[size]: a fresh non-null address; the buffer is live.
heap_new(h, size) ==
    [h EXCEPT !.live = @ \cup {h.brk},
              !.brk = @ + (IF size = 0 THEN 1 ELSE size)]

\* delete ptr: the buffer stops being live and is recorded as freed; deleting
\* what is not live (a second delete of a buffer) is recorded in badFree.
heap_delete(h, p) ==
    IF p \in h.live THEN [h EXCEPT !.live = @ \ {p}, !.freed = @ \cup {p}]
                    ELSE [h EXCEPT !.badFree = TRUE]

\* ---------------------------------------------------------------- resource
\* resource(): resource(nullptr, 0)
resource_null == [ptr |-> 0, size |-> 0]

\* resource(size_type size): resource(new uint8_t[size], size)
resource_alloc(h, size) == [ptr |-> h.brk, size |-> size]

\* resource::operator=(resource &&other) on a store of objects: self is
\* store[d], other is store[s]; the statements run in the code's order, so
\* d = s is the self-assignment.
resource_move_assign(store, h, d, s) ==
    LET h1 == IF store[d].ptr # 0 THEN heap_delete(h, store[d].ptr) ELSE h
        s1 == [store EXCEPT ![d] = store[s]]
        s2 == [s1 EXCEPT ![s] = resource_null]
    IN  [store |-> s2, heap |-> h1]

\* The move constructor without its two assignments to other.
resource_move_construct_keep(store, d, s) ==
    [store EXCEPT ![d] = [ptr |-> store[s].ptr, size |-> store[s].size]]

\* resource::resource(resource &&other): store[d] is constructed from store[s].
resource_move_construct(store, d, s) ==
    LET s1 == [store EXCEPT ![d] = [ptr |-> store[s].ptr, size |-> store[s].size]]
    IN  [s1 EXCEPT ![s] = resource_null]

\* resource::~resource()
resource_destroy(h, r) == IF r.ptr # 0 THEN heap_delete(h, r.ptr) ELSE h

\* The conversion passing the block's size where the end pointer belongs.
resource_region_size_as_end(r) == region_of(r.ptr, r.size)

\* resource::operator region()
resource_region(r) == region_of(r.ptr, r.ptr + r.size)

\* append_range copying to dest.begin() instead of dest.begin() + originalSize.
append_range_at_begin(dest, src) ==
    LET resized == dest \o [i \in 1..Len(src) |-> region_null]
    IN  [i \in 1..Len(resized) |-> IF i <= Len(src) THEN src[i] ELSE resized[i]]

\* ------------------------------------------------------------------ ranges
\* ranges::append_range(dest, src): dest.resize(dest.size() + src.size()), then
\* std::copy(src.begin(), src.end(), dest.begin() + originalSize).  The
\* assert on an empty src is the caller's fatal outcome.
append_range(dest, src) ==
    LET originalSize == Len(dest)
        resized == dest \o [i \in 1..Len(src) |-> region_null]
    IN  [i \in 1..Len(resized) |->
            IF i > originalSize THEN src[i - originalSize] ELSE resized[i]]

\* ------------------------------------------------------- resource_allocator
\* std::vector<resource>::resize(n) for n >= size(): the elements are
\* move-constructed into new storage, the moved-from elements are destroyed,
\* and the new elements are default-constructed.
RECURSIVE vector_move(_, _, _)
vector_move(store, len, i) ==
    IF i > len THEN store
    ELSE vector_move(resource_move_construct(store, len + i, i), len, i + 1)

RECURSIVE vector_destroy(_, _, _, _)
vector_destroy(store, h, len, i) ==
    IF i > len THEN h
    ELSE vector_destroy(store, resource_destroy(h, store[i]), len, i + 1)

vector_resize(v, h, n) ==
    LET len == Len(v)
        raw == v \o [i \in 1..len |-> resource_null]
        moved == vector_move(raw, len, 1)
    IN  [vec |-> SubSeq(moved, len + 1, 2 * len)
                   \o [i \in 1..(n - len) |-> resource_null],
         heap |-> vector_destroy(moved, h, len, 1)]

\* for (auto &element : newRegions) element = std::move(resource(resourceSize));
\* the temporary is the element after the vector's last, destroyed at the
\* end of the statement.
RECURSIVE alloc_loop(_, _, _, _)
alloc_loop(vec, h, size, i) ==
    IF i > Len(vec) THEN [vec |-> vec, heap |-> h]
    ELSE LET tmp == Len(vec) + 1
             st == Append(vec, resource_alloc(h, size))
             ma == resource_move_assign(st, heap_new(h, size), i, tmp)
         IN  alloc_loop(SubSeq(ma.store, 1, Len(vec)),
                        resource_destroy(ma.heap, ma.store[tmp]), size, i + 1)

\* The views std::copy writes: each new resource through operator region().
new_views(vec, oldRegionSize) ==
    [i \in 1..(Len(vec) - oldRegionSize) |-> resource_region(vec[oldRegionSize + i])]

\* resource_allocator::alloc_objects(resourceSize, amount, dest).  fatal: an
\* assert failed (resource(0), or append_range of no new regions).
alloc_objects(regs, h, size, amount, dest) ==
    LET oldRegionSize == Len(regs)
        rz == vector_resize(regs, h, Len(regs) + amount)
        filled == alloc_loop(rz.vec, rz.heap, size, oldRegionSize + 1)
    IN  IF amount > 0 /\ size = 0
        THEN [fatal |-> TRUE, regions |-> rz.vec, heap |-> heap_new(rz.heap, size),
              dest |-> dest]
        ELSE IF amount = 0
        THEN [fatal |-> TRUE, regions |-> rz.vec, heap |-> rz.heap, dest |-> dest]
        ELSE [fatal |-> FALSE, regions |-> filled.vec, heap |-> filled.heap,
              dest |-> append_range(dest, new_views(filled.vec, oldRegionSize))]

\* alloc_regions allocating one block more than asked.
alloc_regions_one_more(regs, h, size, amount, av) ==
    alloc_objects(regs, h, size, amount + 1, av)

\* ------------------------------------------------------------ resource_pool
\* resource_pool::alloc_regions(allocationAmount)
alloc_regions(regs, h, size, amount, av) == alloc_objects(regs, h, size, amount, av)

\* acquire() taking available.front() instead of available.back().
acquire_output_front(av) == av[1]

\* acquire(): region output = available.back()
acquire_output(av) == av[Len(av)]

\* acquire() removing the front entry of the free list.
acquire_pop_front(av) == SubSeq(av, 2, Len(av))

\* acquire(): available.pop_back()
acquire_pop(av) == SubSeq(av, 1, Len(av) - 1)

\* The growth without allocationAmount: the shortfall alone.
acquire_growth_shortfall(amount, count, free) == count - free

\* acquire(count): the argument of alloc_regions when available.size() < count
acquire_growth(amount, count, free) == amount + count - free

\* acquire(count): copyStart = available.size() - count and the std::copy of
\* [copyStart, end) into the returned vector
acquire_copy(av, count) ==
    LET copyStart == Len(av) - count
    IN  [i \in 1..count |-> av[copyStart + i]]

\* acquire(count): the free list when the call returns.  The code copies the
\* tail out and does not erase it.
acquire_remaining(av, count) == av

\* release(region target): available.push_back(target)
release_push(av, target) == Append(av, target)

\* release(region target) called on each element of a range, first to last.
RECURSIVE release_each(_, _)
release_each(av, regionRange) ==
    IF regionRange = <<>> THEN av
    ELSE release_each(release_push(av, Head(regionRange)), Tail(regionRange))

\* The range put in front of the free list's entries.
release_range_in_front(av, regionRange) == regionRange \o av

\* release(auto &regionRange): ranges::append_range(available, regionRange)
release_range(av, regionRange) == append_range(av, regionRange)

\* The bag with one copy of each element of a sequence added.
RECURSIVE BagOfSeq(_)
BagOfSeq(s) == IF s = <<>> THEN EmptyBag
               ELSE BagOfSeq(Tail(s)) (+) SetToBag({Head(s)})

\* A call: its name, its count argument, the length of the sequence it was
\* given to take from or append to, and the resource size it used.
Call(op, count, free, size) == [op |-> op, count |-> count, free |-> free, size |-> size]

\* The constructor without its assert on resourceSize.
construct_asserts_amount_only(size, amount) == amount # 0

\* resource_pool(): assert(resourceSize != 0), assert(allocationAmount != 0)
construct_asserts(size, amount) == size # 0 /\ amount # 0

\* acquire(count) without its assert.
acquire_assert_off(count) == TRUE

\* acquire(count): assert(count != 0)
acquire_assert(count) == count # 0

\* release(auto &regionRange): assert(regionRange.size() != 0)
release_assert(regionRange) == Len(regionRange) # 0

\* Before construction.
PoolInit ==
    /\ pState = "unconstructed"
    /\ resourceSize = 0
    /\ allocationAmount = 0
    /\ available = <<>>
    /\ regions = <<>>
    /\ heap = [live |-> {}, freed |-> {}, brk |-> 1, badFree |-> FALSE]
    /\ ret = <<>>
    /\ call = Call("none", 0, 0, 0)
    /\ held = EmptyBag
    /\ relLog = <<>>
    /\ nAcquire = 0
    /\ onlyAcquire = TRUE
    /\ obtained = {}

\* resource_pool(resourceSize, allocationAmount): the two asserts, then
\* alloc_regions(allocationAmount).
PoolConstruct(size, amount) ==
    /\ pState = "unconstructed"
    /\ resourceSize' = size
    /\ allocationAmount' = amount
    /\ call' = Call("construct", amount, 0, size)
    /\ IF ~construct_asserts(size, amount)
       THEN /\ pState' = "fatal"
            /\ UNCHANGED <<available, regions, heap>>
       ELSE LET g == alloc_regions(regions, heap, size, amount, available)
            IN  /\ pState' = IF g.fatal THEN "fatal" ELSE "live"
                /\ available' = g.dest
                /\ regions' = g.regions
                /\ heap' = g.heap
    /\ UNCHANGED <<ret, held, relLog, nAcquire, onlyAcquire, obtained>>
    /\ UNCHANGED <<aState, resVars, writerVars, smallVars, unsafeVars>>

\* region acquire()
Acquire ==
    /\ pState = "live"
    /\ BagCardinality(held) < MaxHeld
    /\ available = <<>> => Len(regions) + allocationAmount <= MaxBlocks
    /\ LET g == IF available = <<>>
                THEN alloc_regions(regions, heap, resourceSize, allocationAmount,
                                   available)
                ELSE [fatal |-> FALSE, regions |-> regions, heap |-> heap,
                      dest |-> available]
       IN  /\ regions' = g.regions
           /\ heap' = g.heap
           /\ ret' = <<acquire_output(g.dest)>>
           /\ available' = acquire_pop(g.dest)
           /\ held' = held (+) SetToBag({acquire_output(g.dest)})
           /\ obtained' = obtained \cup {acquire_output(g.dest)}
    /\ call' = Call("acquire", 1, Len(available), resourceSize)
    /\ relLog' = IF relLog = <<>> THEN <<>> ELSE SubSeq(relLog, 1, Len(relLog) - 1)
    /\ nAcquire' = IF onlyAcquire THEN nAcquire + 1 ELSE 0
    /\ UNCHANGED <<pState, resourceSize, allocationAmount, onlyAcquire>>
    /\ UNCHANGED <<aState, resVars, writerVars, smallVars, unsafeVars>>

\* std::vector<region> acquire(uint32_t count)
AcquireCount(count) ==
    /\ pState = "live"
    /\ call' = Call("acquire_count", count, Len(available), resourceSize)
    /\ onlyAcquire' = FALSE
    /\ nAcquire' = 0
    /\ relLog' = <<>>
    /\ IF ~acquire_assert(count)
       THEN /\ pState' = "fatal"
            /\ UNCHANGED <<available, regions, heap, ret, held, obtained>>
       ELSE /\ BagCardinality(held) + count <= MaxHeld
            /\ Len(available) < count =>
                 Len(regions) + acquire_growth(allocationAmount, count, Len(available))
                     <= MaxBlocks
            /\ LET g == IF Len(available) < count
                        THEN alloc_regions(regions, heap, resourceSize,
                                 acquire_growth(allocationAmount, count, Len(available)),
                                 available)
                        ELSE [fatal |-> FALSE, regions |-> regions, heap |-> heap,
                              dest |-> available]
               IN  /\ regions' = g.regions
                   /\ heap' = g.heap
                   /\ ret' = acquire_copy(g.dest, count)
                   /\ available' = acquire_remaining(g.dest, count)
                   /\ held' = held (+) BagOfSeq(acquire_copy(g.dest, count))
                   /\ obtained' = obtained \cup
                         {acquire_copy(g.dest, count)[i] : i \in 1..count}
            /\ UNCHANGED pState
    /\ UNCHANGED <<resourceSize, allocationAmount>>
    /\ UNCHANGED <<aState, resVars, writerVars, smallVars, unsafeVars>>

\* void release(region target): the caller gives back a region it holds.
Release(target) ==
    /\ pState = "live"
    /\ BagIn(target, held)
    /\ Len(available) < MaxFree
    /\ available' = release_push(available, target)
    /\ held' = held (-) SetToBag({target})
    /\ call' = Call("release", 1, Len(available), resourceSize)
    /\ relLog' = Append(relLog, target)
    /\ onlyAcquire' = FALSE
    /\ nAcquire' = 0
    /\ UNCHANGED <<pState, resourceSize, allocationAmount, regions, heap, ret,
                   obtained>>
    /\ UNCHANGED <<aState, resVars, writerVars, smallVars, unsafeVars>>

\* void release(region target) with a copy the caller kept of a region it
\* obtained from this pool, whether or not it has released it already.
ReleaseCopy(target) ==
    /\ pState = "live"
    /\ target \in obtained
    /\ Len(available) < MaxFree
    /\ available' = release_push(available, target)
    /\ call' = Call("release_copy", 1, Len(available), resourceSize)
    /\ relLog' = Append(relLog, target)
    /\ onlyAcquire' = FALSE
    /\ nAcquire' = 0
    /\ UNCHANGED <<pState, resourceSize, allocationAmount, regions, heap, ret, held,
                   obtained>>
    /\ UNCHANGED <<aState, resVars, writerVars, smallVars, unsafeVars>>

\* void release(auto &regionRange): the assert, then append_range.
ReleaseRange(regionRange) ==
    /\ pState = "live"
    /\ call' = Call("release_range", Len(regionRange), Len(available), resourceSize)
    /\ onlyAcquire' = FALSE
    /\ nAcquire' = 0
    /\ IF ~release_assert(regionRange)
       THEN /\ pState' = "fatal"
            /\ UNCHANGED <<available, held, relLog>>
       ELSE /\ Len(available) + Len(regionRange) <= MaxFree
            /\ available' = release_range(available, regionRange)
            /\ held' = held (-) BagOfSeq(regionRange)
            /\ relLog' = relLog \o regionRange
            /\ UNCHANGED pState
    /\ UNCHANGED <<resourceSize, allocationAmount, regions, heap, ret, obtained>>
    /\ UNCHANGED <<aState, resVars, writerVars, smallVars, unsafeVars>>

\* The ranges a caller can release: the regions it holds, each as often as it
\* holds it, in any order, and the empty range.
RECURSIVE HeldRanges(_, _)
HeldRanges(bag, n) ==
    IF n = 0 THEN {<<>>}
    ELSE {<<>>} \cup
         UNION {{<<r>> \o t : t \in HeldRanges(bag (-) SetToBag({r}), n - 1)} :
                    r \in BagToSet(bag)}

PoolNext ==
    \/ \E size \in 0..MaxResourceSize, amount \in 0..MaxAllocationAmount :
           PoolConstruct(size, amount)
    \/ Acquire
    \/ \E count \in 0..MaxCount : AcquireCount(count)
    \/ \E target \in BagToSet(held) : Release(target)
    \/ \E regionRange \in HeldRanges(held, MaxCount) : ReleaseRange(regionRange)

\* The pool with callers that also release copies of regions they obtained.
CopiesNext ==
    \/ PoolNext
    \/ \E target \in obtained : ReleaseCopy(target)

\* ------------------------------------------- resource_allocator on its own
\* A default-constructed resource_allocator (regions) and a caller's
\* destination vector (available).
AllocInit == aState = "live"

\* alloc_objects(resourceSize, amount, dest) called directly; the caller passes
\* the vector it filled before, or (fresh) an empty one.
AllocObjects(size, amount, fresh) ==
    /\ aState = "live"
    /\ Len(regions) + amount <= MaxBlocks
    /\ LET destIn == IF fresh THEN <<>> ELSE available
           g == alloc_objects(regions, heap, size, amount, destIn)
       IN  /\ regions' = g.regions
           /\ heap' = g.heap
           /\ available' = g.dest
           /\ aState' = IF g.fatal THEN "fatal" ELSE "live"
           /\ call' = Call("alloc_objects", amount, Len(destIn), size)
    /\ UNCHANGED <<pState, resourceSize, allocationAmount, ret, held, relLog,
                   nAcquire, onlyAcquire, obtained>>
    /\ UNCHANGED <<resVars, writerVars, smallVars, unsafeVars>>

AllocNext ==
    \E size \in 0..MaxResourceSize, amount \in 0..MaxCount, fresh \in BOOLEAN :
        AllocObjects(size, amount, fresh)

\* ------------------------------------------------- resource objects on their own
Objects == 1..MaxObjects

RCall(op, dst, src) == [op |-> op, dst |-> dst, src |-> src]

ResInit ==
    /\ objs = [o \in Objects |-> resource_null]
    /\ alive = {}
    /\ rState = "live"
    /\ rcall = RCall("none", 0, 0)

\* resource r(size): new uint8_t[size], then assert(size != 0).
ResConstruct(d, size) ==
    /\ rState = "live"
    /\ d \notin alive
    /\ Cardinality(heap.live \cup heap.freed) < MaxBuffers
    /\ heap' = heap_new(heap, size)
    /\ rcall' = RCall("construct", d, d)
    /\ IF size = 0
       THEN rState' = "fatal" /\ UNCHANGED <<objs, alive>>
       ELSE /\ objs' = [objs EXCEPT ![d] = resource_alloc(heap, size)]
            /\ alive' = alive \cup {d}
            /\ UNCHANGED rState
    /\ UNCHANGED <<poolFrame, aState, writerVars, smallVars, unsafeVars>>

\* resource r;
ResDefault(d) ==
    /\ rState = "live"
    /\ d \notin alive
    /\ objs' = [objs EXCEPT ![d] = resource_null]
    /\ alive' = alive \cup {d}
    /\ rcall' = RCall("default", d, d)
    /\ UNCHANGED <<rState, heap>>
    /\ UNCHANGED <<poolFrame, aState, writerVars, smallVars, unsafeVars>>

\* resource d(std::move(s));
ResMoveConstruct(d, s) ==
    /\ rState = "live"
    /\ d \notin alive
    /\ s \in alive
    /\ objs' = resource_move_construct(objs, d, s)
    /\ alive' = alive \cup {d}
    /\ rcall' = RCall("move_construct", d, s)
    /\ UNCHANGED <<rState, heap>>
    /\ UNCHANGED <<poolFrame, aState, writerVars, smallVars, unsafeVars>>

\* d = std::move(s); d and s may be the same object.  The buffer comes from
\* new[] and is released with delete: a build that checks the pairing stops
\* there, any other releases the buffer.
ResMoveAssign(d, s) ==
    /\ rState = "live"
    /\ d \in alive
    /\ s \in alive
    /\ rcall' = RCall("move_assign", d, s)
    /\ \/ LET r == resource_move_assign(objs, heap, d, s)
          IN  objs' = r.store /\ heap' = r.heap /\ UNCHANGED <<rState, alive>>
       \/ objs[d].ptr # 0 /\ rState' = "fatal" /\ UNCHANGED <<objs, heap, alive>>
    /\ UNCHANGED <<poolFrame, aState, writerVars, smallVars, unsafeVars>>

\* The end of d's lifetime: ~resource().
ResDestroy(d) ==
    /\ rState = "live"
    /\ d \in alive
    /\ rcall' = RCall("destroy", d, d)
    /\ \/ /\ heap' = resource_destroy(heap, objs[d])
          /\ objs' = [objs EXCEPT ![d] = resource_null]
          /\ alive' = alive \ {d}
          /\ UNCHANGED rState
       \/ objs[d].ptr # 0 /\ rState' = "fatal" /\ UNCHANGED <<objs, heap, alive>>
    /\ UNCHANGED <<poolFrame, aState, writerVars, smallVars, unsafeVars>>

ResNext ==
    \/ \E d \in Objects, size \in 0..MaxResourceSize : ResConstruct(d, size)
    \/ \E d \in Objects : ResDefault(d)
    \/ \E d \in Objects, s \in Objects : ResMoveConstruct(d, s)
    \/ \E d \in Objects, s \in Objects : ResMoveAssign(d, s)
    \/ \E d \in Objects : ResDestroy(d)

\* ------------------------------------------------------------------ writer
\* The addresses: AddrBits-bit pointers, and size_type of the same width.
AddrSpace == 2 ^ AddrBits
Addr == 0..(AddrSpace - 1)

\* Byte i of the source buffer of a call; the buffers hold the values 1 and 2.
SrcByte(fill, i) == ((fill + i) % 2) + 1

WCall(op, amount, fill) == [op |-> op, amount |-> amount, fill |-> fill]

WriterInit ==
    /\ wState = "unconstructed"
    /\ wRegion = region_null
    /\ writeStart = 0
    /\ mem = [a \in Addr |-> 0]
    /\ wRet = FALSE
    /\ wCall = WCall("none", 0, 0)

\* writer_base::write, uint8_t *writeEnd = writeStart + amount: pointer
\* arithmetic of AddrBits bits.
write_end(cursor, amount) == (cursor + amount) % AddrSpace

\* writer_base::write, the test writeEnd <= bufferEnd
write_fits(cursor, bufferEnd, amount) == write_end(cursor, amount) <= bufferEnd

\* memcpy(writeStart, src, amount)
memcpy(m, dst, fill, amount) ==
    [a \in Addr |->
        IF (a - dst) % AddrSpace < amount THEN SrcByte(fill, (a - dst) % AddrSpace)
        ELSE m[a]]

\* writer_base::bytes_remaining(bufferEnd)
bytes_remaining(bufferEnd, cursor) == (bufferEnd - cursor) % AddrSpace

\* writer::bytes_written()
bytes_written(cursor, start) == (cursor - start) % AddrSpace

\* reset() moving the cursor to the other end of the region.
reset_cursor_to_end(r) == r.endPtr

\* writer::reset()
reset_cursor(r) == r.startPtr

\* writer(region destination), destination built by region(start, end); the
\* assert compares the cursor with the region's end.
writer_construct(start, end) ==
    /\ wState = "unconstructed"
    /\ wRegion' = region_of(start, end)
    /\ writeStart' = start
    /\ wState' = IF start <= end THEN "live" ELSE "fatal"
    /\ wCall' = WCall("construct", 0, 0)
    /\ UNCHANGED <<mem, wRet>>

WriterConstruct(start, end) ==
    /\ writer_construct(start, end)
    /\ UNCHANGED <<poolVars, aState, resVars, smallVars, unsafeVars>>

\* writer::write(src, amount) through writer_base::write(region::endPtr, src,
\* amount).  A copy that runs past the region is outside the language's
\* rules: it ends the process ("crashed") or completes over whatever lies
\* there ("overrun"); neither is followed further.
writer_write(amount, fill) ==
    /\ wState = "live"
    /\ wCall' = WCall("write", amount, fill)
    /\ UNCHANGED wRegion
    /\ IF write_fits(writeStart, wRegion.endPtr, amount)
       THEN IF writeStart + amount <= wRegion.endPtr
            THEN /\ mem' = memcpy(mem, writeStart, fill, amount)
                 /\ writeStart' = write_end(writeStart, amount)
                 /\ wRet' = TRUE
                 /\ UNCHANGED wState
            ELSE \/ /\ wState' = "crashed"
                    /\ UNCHANGED <<mem, writeStart, wRet>>
                 \/ /\ wState' = "overrun"
                    /\ mem' = memcpy(mem, writeStart, fill, amount)
                    /\ writeStart' = write_end(writeStart, amount)
                    /\ wRet' = TRUE
       ELSE /\ wRet' = FALSE
            /\ UNCHANGED <<mem, writeStart, wState>>

WriterWrite(amount, fill) ==
    /\ writer_write(amount, fill)
    /\ UNCHANGED <<poolVars, aState, resVars, smallVars, unsafeVars>>

\* writer::reset()
WriterReset ==
    /\ wState = "live"
    /\ writeStart' = reset_cursor(wRegion)
    /\ wCall' = WCall("reset", 0, 0)
    /\ UNCHANGED <<wState, wRegion, mem, wRet>>
    /\ UNCHANGED <<poolVars, aState, resVars, smallVars, unsafeVars>>

WriterNext ==
    \/ \E start \in 1..MaxStart, end \in 1..(MaxStart + MaxRegionSize) :
           WriterConstruct(start, end)
    \/ \E amount \in Addr, fill \in 0..1 : WriterWrite(amount, fill)
    \/ WriterReset

\* ------------------------------------------- regions of any extent, written to
\* writer(region(start, end)) for any two addresses.
RegionFromEnds(start, end) ==
    /\ writer_construct(start, end)
    /\ UNCHANGED <<poolVars, aState, resVars, smallVars, unsafeVars>>

\* writer(region(start, size)) for a buffer of size bytes that lies in the
\* address space.
RegionFromSize(start, size) ==
    /\ wState = "unconstructed"
    /\ start + size < AddrSpace
    /\ wRegion' = region_of_size(start, size)
    /\ writeStart' = region_of_size(start, size).startPtr
    /\ wState' = IF region_of_size(start, size).startPtr
                       <= region_of_size(start, size).endPtr
                  THEN "live" ELSE "fatal"
    /\ wCall' = WCall("construct_size", size, 0)
    /\ UNCHANGED <<mem, wRet>>
    /\ UNCHANGED <<poolVars, aState, resVars, smallVars, unsafeVars>>

RegionNext ==
    \/ \E start \in Addr \ {0}, end \in Addr \ {0} : RegionFromEnds(start, end)
    \/ \E start \in Addr \ {0}, size \in 0..(2 ^ Uint32Bits - 1) :
           RegionFromSize(start, size)

\* ------------------------------------------------------------ small_writer
\* A size_type argument passed to a uint32_t parameter keeps its low bits.
to_uint32(n) == n % (2 ^ Uint32Bits)

\* bool small_writer::bytes_remaining() const: the count of writer_base
\* converted to bool, which reads as 1 or 0 where a number is expected.
small_bytes_remaining(end, cursor) ==
    IF bytes_remaining(end, cursor) # 0 THEN 1 ELSE 0

SmallInit ==
    /\ swState = "unconstructed"
    /\ swBufferEnd = 0
    /\ swWriteStart = 0
    /\ swMem = [a \in Addr |-> 0]
    /\ swRet = FALSE

\* small_writer(region destination), destination built by region(start, end)
small_construct(start, end) ==
    /\ swState = "unconstructed"
    /\ swWriteStart' = region_of(start, end).startPtr
    /\ swBufferEnd' = region_of(start, end).endPtr
    /\ swState' = IF start <= end THEN "live" ELSE "fatal"
    /\ UNCHANGED <<swMem, swRet>>

\* small_writer::write(const void *src, const uint32_t amount) through
\* writer_base::write(bufferEnd, src, amount)
small_write(amount, fill) ==
    LET n == to_uint32(amount)
    IN  /\ swState = "live"
        /\ UNCHANGED swBufferEnd
        /\ IF write_fits(swWriteStart, swBufferEnd, n)
           THEN IF swWriteStart + n <= swBufferEnd
                THEN /\ swMem' = memcpy(swMem, swWriteStart, fill, n)
                     /\ swWriteStart' = write_end(swWriteStart, n)
                     /\ swRet' = TRUE
                     /\ UNCHANGED swState
                ELSE \/ /\ swState' = "crashed"
                        /\ UNCHANGED <<swMem, swWriteStart, swRet>>
                     \/ /\ swState' = "overrun"
                        /\ swMem' = memcpy(swMem, swWriteStart, fill, n)
                        /\ swWriteStart' = write_end(swWriteStart, n)
                        /\ swRet' = TRUE
           ELSE /\ swRet' = FALSE
                /\ UNCHANGED <<swMem, swWriteStart, swState>>

\* A writer and a small_writer constructed over the same region, each over its
\* own copy of the memory.
PairConstruct(start, end) ==
    /\ writer_construct(start, end)
    /\ small_construct(start, end)
    /\ UNCHANGED <<poolVars, aState, resVars, unsafeVars>>

\* The same write(src, amount) made on both.
PairWrite(amount, fill) ==
    /\ writer_write(amount, fill)
    /\ small_write(amount, fill)
    /\ UNCHANGED <<poolVars, aState, resVars, unsafeVars>>

PairNext ==
    \/ \E start \in 1..MaxStart, end \in 1..(MaxStart + MaxRegionSize) :
           PairConstruct(start, end)
    \/ \E amount \in Addr, fill \in 0..1 : PairWrite(amount, fill)

\* ----------------------------------------------------------- unsafe::writer
\* The last call: its name, the string or bytes passed and the amount.
UCall(op, src, amount) == [op |-> op, src |-> src, amount |-> amount]

\* writer(): writeDest(nullptr)
UnsafeInit ==
    /\ uState = "unconstructed"
    /\ writeDest = 0
    /\ uCall = UCall("none", <<>>, 0)

\* The strings a caller passes: up to MaxStrLen characters, none of them zero;
\* in memory each is followed by its terminating zero.
RECURSIVE StringsOf(_)
StringsOf(n) ==
    IF n = 0 THEN {<<>>}
    ELSE StringsOf(n - 1) \cup
         {Append(s, c) : s \in {t \in StringsOf(n - 1) : Len(t) = n - 1}, c \in 1..2}

c_str(s) == Append(s, 0)

\* strncpy stopping after the terminating zero, without the padding.
strncpy_unpadded(m, dst, src, n) ==
    [a \in DOMAIN m |->
        IF dst <= a /\ a < dst + n /\ a - dst < Len(src) THEN src[a - dst + 1]
        ELSE m[a]]

\* std::strncpy(dest, src, n): characters of src are copied one by one, the
\* terminating zero included, until n have been written; once the zero has
\* been copied the rest of the n bytes are written as zeros.  src is not read
\* past its terminating zero.
RECURSIVE strncpy_loop(_, _, _, _, _, _)
strncpy_loop(m, dst, src, n, i, padding) ==
    IF i = n THEN m
    ELSE IF padding
         THEN strncpy_loop([m EXCEPT ![dst + i] = 0], dst, src, n, i + 1, TRUE)
         ELSE strncpy_loop([m EXCEPT ![dst + i] = src[i + 1]], dst, src, n, i + 1,
                           src[i + 1] = 0)

strncpy(m, dst, src, n) == strncpy_loop(m, dst, src, n, 0, FALSE)

\* The bytes memcpy reads from a source of the given fill.
SrcBytes(fill, amount) == [i \in 1..amount |-> SrcByte(fill, i - 1)]

\* writer(uint8_t *start): a writer, or another one, at an address of the
\* caller's buffer, the addresses 1..MaxUnsafeSize.
UnsafeConstruct(start) ==
    /\ uState' = "live"
    /\ writeDest' = start
    /\ uCall' = UCall("construct", <<>>, 0)
    /\ UNCHANGED writerVars
    /\ UNCHANGED <<poolVars, aState, resVars, smallVars>>

\* unsafe::writer::write(src, amount); the caller keeps the write inside its
\* buffer, the writer checks nothing.
UnsafeWrite(amount, fill) ==
    /\ uState = "live"
    /\ writeDest + amount <= MaxUnsafeSize + 1
    /\ mem' = memcpy(mem, writeDest, fill, amount)
    /\ writeDest' = (writeDest + amount) % AddrSpace
    /\ uCall' = UCall("write", SrcBytes(fill, amount), amount)
    /\ UNCHANGED <<uState, wState, wRegion, writeStart, wRet, wCall>>
    /\ UNCHANGED <<poolVars, aState, resVars, smallVars>>

\* unsafe::writer::write_str(src, amount), src a terminated string.
UnsafeWriteStr(s, amount) ==
    /\ uState = "live"
    /\ writeDest + amount <= MaxUnsafeSize + 1
    /\ mem' = strncpy(mem, writeDest, c_str(s), amount)
    /\ writeDest' = (writeDest + amount) % AddrSpace
    /\ uCall' = UCall("write_str", s, amount)
    /\ UNCHANGED <<uState, wState, wRegion, writeStart, wRet, wCall>>
    /\ UNCHANGED <<poolVars, aState, resVars, smallVars>>

UnsafeNext ==
    \/ \E start \in 1..MaxUnsafeSize : UnsafeConstruct(start)
    \/ \E amount \in 0..MaxUnsafeSize, fill \in 0..1 : UnsafeWrite(amount, fill)
    \/ \E s \in StringsOf(MaxStrLen), amount \in 0..MaxUnsafeSize :
           UnsafeWriteStr(s, amount)

\* ---------------------------------------------------------- specifications
Init == PoolInit /\ AllocInit /\ ResInit /\ WriterInit /\ SmallInit /\ UnsafeInit

\* The pool and its callers.
Next == PoolNext

Spec == Init /\ [][Next]_vars

\* The pool, released to without discipline.
SpecCopies == Init /\ [][CopiesNext]_vars

\* The allocator called directly.
SpecAlloc == Init /\ [][AllocNext]_vars

\* Resource objects constructed, moved and destroyed.
SpecResource == Init /\ [][ResNext]_vars

\* A writer over a region.
SpecWriter == Init /\ [][WriterNext]_vars

\* Regions of every extent, each with a fresh writer.
SpecRegion == Init /\ [][RegionNext]_vars

\* A writer and a small_writer driven by the same calls.
SpecPair == Init /\ [][PairNext]_vars

\* The unchecked writer over a buffer of its caller.
SpecUnsafe == Init /\ [][UnsafeNext]_vars

\* ------------------------------------------------------------------ claims
\* C1: a write of n bytes succeeds, copies exactly the n bytes to the cursor
\* and adds n to bytes_written() when n <= bytes_remaining(); for every other
\* n it returns failure and leaves the cursor and every byte unchanged.
C1_WriteAllOrNothing ==
    [][(wCall'.op = "write" /\ wState = "live") =>
          LET n == wCall'.amount
              start == wRegion.startPtr
          IN  IF n <= bytes_remaining(wRegion.endPtr, writeStart)
              THEN /\ wState' = "live"
                   /\ wRet' = TRUE
                   /\ bytes_written(writeStart', start) = bytes_written(writeStart, start) + n
                   /\ \A a \in Addr :
                        mem'[a] = IF writeStart <= a /\ a < writeStart + n
                                  THEN SrcByte(wCall'.fill, a - writeStart)
                                  ELSE mem[a]
              ELSE /\ wState' = "live"
                   /\ wRet' = FALSE
                   /\ writeStart' = writeStart
                   /\ mem' = mem]_vars

\* C2: whatever writes and resets were called, the cursor of a writer built
\* over start <= end lies in [start, end] and bytes_written() +
\* bytes_remaining() is the region's size.
C2_CursorInRegion ==
    wState \in {"live", "overrun"} =>
        /\ wRegion.startPtr <= writeStart
        /\ writeStart <= wRegion.endPtr
        /\ bytes_written(writeStart, wRegion.startPtr)
             + bytes_remaining(wRegion.endPtr, writeStart) = region_size(wRegion)

\* C3: when acquire(count) returns, the free list is the free list it found
\* (after any growth) without its last count entries.
C3_AcquireCountRemoves ==
    [][(call'.op = "acquire_count" /\ pState' = "live") =>
          LET grown == available \o new_views(regions', Len(regions))
          IN  available' = SubSeq(grown, 1, Len(grown) - call'.count)]_vars

\* C4: acquire() returns the region released last among those released since
\* the last acquire and not yet returned, so k releases come back in reverse.
C4_ReverseOfRelease ==
    [][(call'.op = "acquire" /\ relLog # <<>>) => ret' = <<relLog[Len(relLog)]>>]_vars

\* Two different regions were released and the later one has come back.
C4_Witness ==
    /\ call.op = "acquire"
    /\ relLog # <<>>
    /\ ret # <<>>
    /\ ret[1] # relLog[Len(relLog)]

\* C5: construction creates allocationAmount blocks; acquire() creates
\* allocationAmount blocks when it finds the free list empty and none
\* otherwise; so the first allocationAmount acquires create none and the next
\* one brings the total to twice allocationAmount.
C5_GrowthOnlyWhenEmpty ==
    [][/\ (call'.op = "construct" /\ pState' = "live") =>
             /\ Len(regions') = allocationAmount'
             /\ Cardinality(heap'.live) = allocationAmount'
       /\ call'.op = "acquire" =>
             /\ Len(regions') =
                   Len(regions) + (IF available = <<>> THEN allocationAmount ELSE 0)
             /\ Cardinality(heap'.live) = Len(regions')
       /\ (pState' = "live" /\ onlyAcquire') =>
             /\ nAcquire' <= allocationAmount' => Len(regions') = allocationAmount'
             /\ nAcquire' = allocationAmount' + 1 =>
                   Len(regions') = 2 * allocationAmount']_vars

\* Pool(R, 2) after three acquires and nothing else.
C5_Witness ==
    /\ pState = "live"
    /\ onlyAcquire
    /\ allocationAmount = 2
    /\ nAcquire = allocationAmount + 1
    /\ Len(regions) = 2 * allocationAmount

\* C6: acquire(count), count > 0, creates no block when count regions are
\* free and otherwise allocationAmount + (count - free) blocks in one growth;
\* it returns the last count entries of the free list after the growth, in
\* order, each of resourceSize bytes.
C6_BulkAcquire ==
    [][(call'.op = "acquire_count" /\ pState' = "live") =>
          LET free == Len(available)
              count == call'.count
              grown == available \o new_views(regions', Len(regions))
          IN  /\ free >= count => regions' = regions
              /\ free < count =>
                    Len(regions') = Len(regions) + allocationAmount + (count - free)
              /\ Len(ret') = count
              /\ \A i \in 1..count : region_size(ret'[i]) = resourceSize
              /\ ret' = SubSeq(grown, Len(grown) - count + 1, Len(grown))]_vars

\* A bulk acquire that found fewer free regions than it was asked for.
C6_Witness ==
    /\ call.op = "acquire_count"
    /\ pState = "live"
    /\ call.free < call.count
    /\ Len(ret) = call.count

\* C7: a pool constructed with a zero resourceSize or a zero allocationAmount
\* is in the fatal state, and nothing was allocated for it.
C7_ZeroConfigurationFatal ==
    (pState # "unconstructed" /\ (resourceSize = 0 \/ allocationAmount = 0)) =>
        /\ pState = "fatal"
        /\ regions = <<>>
        /\ available = <<>>
        /\ heap.live = {}

\* Pool(0, A) with A > 0.
C7_Witness ==
    /\ pState = "fatal"
    /\ call.op = "construct"
    /\ resourceSize = 0
    /\ allocationAmount > 0

\* C8: acquire(0) and release of an empty range are fatal and leave the free
\* list, the allocator's blocks and the free store as they were.
C8_EmptyRequestFatal ==
    [][(call'.op \in {"acquire_count", "release_range"} /\ call'.count = 0) =>
          /\ pState' = "fatal"
          /\ available' = available
          /\ regions' = regions
          /\ heap' = heap]_vars

\* acquire(0) on a pool whose free list is not empty.
C8_Witness ==
    /\ pState = "fatal"
    /\ call.op = "acquire_count"
    /\ call.count = 0
    /\ available # <<>>

\* C9: no buffer is owned by two resources, every owned buffer is live, no
\* buffer is deleted twice, and the source of a move is the null block.
C9_SingleOwner ==
    /\ ~heap.badFree
    /\ \A d \in alive : objs[d].ptr # 0 => objs[d].ptr \in heap.live
    /\ \A d \in alive, s \in alive :
          (d # s /\ objs[d].ptr # 0) => objs[d].ptr # objs[s].ptr
    /\ (rcall.op \in {"move_construct", "move_assign"} /\ rState = "live") =>
          objs[rcall.src] = resource_null

\* A move assignment onto a resource that owned a buffer, from another
\* resource that owned one.
C9_Witness ==
    /\ rcall.op = "move_assign"
    /\ rState = "live"
    /\ rcall.dst # rcall.src
    /\ objs[rcall.dst].ptr # 0
    /\ heap.freed # {}

\* C10: alloc_objects(resourceSize, amount, dest) appends amount blocks of
\* resourceSize bytes with fresh buffers after the blocks it had, which keep
\* their place, address and size, and appends the new blocks' views to dest in
\* creation order after dest's entries, which stay; the block count never
\* decreases.
C10_AllocObjectsAppends ==
    [][/\ Len(regions') >= Len(regions)
       /\ (call'.op = "alloc_objects" /\ aState' = "live") =>
             LET old == Len(regions)
                 amount == call'.count
                 destIn == SubSeq(available, 1, call'.free)
             IN  /\ Len(regions') = old + amount
                 /\ \A i \in 1..old : regions'[i] = regions[i]
                 /\ \A i \in (old + 1)..(old + amount) :
                       /\ regions'[i].size = call'.size
                       /\ regions'[i].ptr # 0
                       /\ regions'[i].ptr \notin (heap.live \cup heap.freed)
                       /\ regions'[i].ptr \in heap'.live
                       /\ \A j \in (old + 1)..(old + amount) :
                             i # j => regions'[i].ptr # regions'[j].ptr
                 /\ Len(available') = Len(destIn) + amount
                 /\ \A i \in 1..Len(destIn) : available'[i] = destIn[i]
                 /\ \A i \in 1..amount :
                       available'[Len(destIn) + i] =
                           region_of(regions'[old + i].ptr,
                                     regions'[old + i].ptr + call'.size)]_vars

\* A call that found earlier blocks of another size and a dest with entries.
C10_Witness ==
    /\ call.op = "alloc_objects"
    /\ aState = "live"
    /\ call.free > 0
    /\ call.count > 1
    /\ Len(regions) > call.count
    /\ regions[1].size # call.size

\* C11: when callers release only regions they obtained from this pool, in
\* every state of a constructed pool every region in the free list and every
\* region the last call of acquire returned is non-null, has size exactly
\* resourceSize and spans, from its first byte to one past its last, a block
\* the allocator still holds and has not freed.
C11_RegionsAreBlockViews ==
    LET PoolView(r) ==
            /\ r.startPtr # 0
            /\ region_size(r) = resourceSize
            /\ \E i \in 1..Len(regions) :
                  /\ regions[i].ptr \in heap.live
                  /\ r.startPtr = regions[i].ptr
                  /\ r.endPtr = regions[i].ptr + regions[i].size
    IN  pState = "live" =>
           /\ \A i \in 1..Len(available) : PoolView(available[i])
           /\ \A i \in 1..Len(ret) : PoolView(ret[i])

\* A pool that has grown more than once, just after a caller released a copy
\* of a region that an acquire had returned, with other entries in the free list.
C11_Witness ==
    /\ pState = "live"
    /\ call.op = "release_copy"
    /\ Len(regions) > allocationAmount
    /\ Len(available) >= 2
    /\ ret # <<>>

\* C12: reset() after any writes makes bytes_written() 0 and
\* bytes_remaining() the size of the region, leaves the region's bounds and
\* every byte of memory as they were, and a write that succeeds right after it
\* puts its bytes at the region's start.
C12_ResetRewinds ==
    [][/\ wCall'.op = "reset" =>
             /\ bytes_written(writeStart', wRegion'.startPtr) = 0
             /\ bytes_remaining(wRegion'.endPtr, writeStart') =
                   wRegion.endPtr - wRegion.startPtr
             /\ wRegion' = wRegion
             /\ mem' = mem
             /\ wRet' = wRet
       /\ (wCall.op = "reset" /\ wCall'.op = "write" /\ wState' # "crashed"
             /\ wRet') =>
             /\ \A i \in 0..(wCall'.amount - 1) :
                   mem'[(wRegion.startPtr + i) % AddrSpace] = SrcByte(wCall'.fill, i)
             /\ bytes_written(writeStart', wRegion.startPtr) = wCall'.amount]_vars

\* A reset of a writer that had written: the cursor is back at the start of a
\* region whose first bytes hold what was written.
C12_Witness ==
    /\ wState = "live"
    /\ wCall.op = "reset"
    /\ wRegion.endPtr - wRegion.startPtr >= 2
    /\ mem[wRegion.startPtr] # 0
    /\ mem[wRegion.startPtr + 1] # 0
    /\ writeStart = wRegion.startPtr

\* C13: a writer and a small_writer over the same region, given the same
\* write calls, return the same result on every call, and after every call
\* each reports as bytes_remaining() the distance from its cursor to the
\* region's end.
C13_SmallWriterSameContract ==
    (wCall.op = "write" /\ wState = "live" /\ swState = "live") =>
       /\ swRet = wRet
       /\ bytes_remaining(wRegion.endPtr, writeStart) = wRegion.endPtr - writeStart
       /\ small_bytes_remaining(swBufferEnd, swWriteStart)
             = swBufferEnd - swWriteStart

\* C14: for every region built from (start, end) with start <= end
\* or from (start, size), size() is end - start, respectively the size given,
\* and a fresh writer over it is constructed, reports size() as
\* bytes_remaining() and 0 as bytes_written().
C14_RegionSize ==
    /\ (wCall.op \in {"construct", "construct_size"}
          /\ wRegion.startPtr <= wRegion.endPtr) => wState = "live"
    /\ wState = "live" =>
          /\ region_size(wRegion) = wRegion.endPtr - wRegion.startPtr
          /\ wCall.op = "construct_size" => region_size(wRegion) = wCall.amount
          /\ bytes_remaining(wRegion.endPtr, writeStart) = region_size(wRegion)
          /\ bytes_written(writeStart, wRegion.startPtr) = 0

\* C15: release(sequence) with a non-empty sequence leaves the free list that
\* release(region) on each element in order would leave: the previous entries
\* unchanged, followed by the sequence's elements in order, so that the next
\* acquire() returns the sequence's last element.
C15_ReleaseRangeIsReleaseEach ==
    [][(call'.op = "release_range" /\ call'.count > 0) =>
          LET regionRange == SubSeq(relLog', Len(relLog) + 1, Len(relLog'))
          IN  /\ pState' = "live"
              /\ Len(regionRange) = call'.count
              /\ available' = release_each(available, regionRange)
              /\ available' = available \o regionRange
              /\ acquire_output(available') = regionRange[Len(regionRange)]]_vars

\* A release of two different regions to a free list that had an entry.
C15_Witness ==
    /\ pState = "live"
    /\ call.op = "release_range"
    /\ call.count = 2
    /\ call.free > 0
    /\ available[Len(available)] # available[Len(available) - 1]

\* C16: for every amount of size_type, those for which cursor + amount wraps
\* around the address width included, a write of more than bytes_remaining()
\* returns false, copies nothing and leaves the cursor where it was.
C16_OverflowCheckAllAmounts ==
    [][(wCall'.op = "write" /\ wState = "live"
          /\ wCall'.amount > bytes_remaining(wRegion.endPtr, writeStart)) =>
             /\ wState' = "live"
             /\ wRet' = FALSE
             /\ mem' = mem
             /\ writeStart' = writeStart]_vars

\* C17: when callers release only regions they hold, each once for each time
\* they acquired it, then whatever the order of acquire(), acquire(count),
\* release(region) and release(sequence): no region is held by two
\* acquisitions at once, no region a caller holds is in the free list, and no
\* region is in the free list twice.
C17_DisciplinedUseNoSharing ==
    pState = "live" =>
       /\ \A r \in BagToSet(held) : CopiesIn(r, held) = 1
       /\ \A i \in 1..Len(available) : ~BagIn(available[i], held)
       /\ \A i, j \in 1..Len(available) :
             available[i] = available[j] => i = j

\* C18: blocks are created only inside acquire and only when the free list is
\* too short.  release(region) and release(sequence) leave the allocator's
\* blocks and the free store as they were and do not touch the entries the
\* free list already had; acquire() on a non-empty free list leaves the blocks
\* and the free store as they were and removes the free list's last entry,
\* nothing else.
C18_GrowthOnlyInAcquire ==
    [][/\ call'.op \in {"release", "release_range", "release_copy"} =>
             /\ regions' = regions
             /\ heap' = heap
             /\ Len(available') >= Len(available)
             /\ SubSeq(available', 1, Len(available)) = available
       /\ (call'.op = "acquire" /\ available # <<>>) =>
             /\ regions' = regions
             /\ heap' = heap
             /\ available' = SubSeq(available, 1, Len(available) - 1)
       /\ (pState = "live" /\ (regions' # regions \/ heap' # heap)) =>
             \/ call'.op = "acquire" /\ available = <<>>
             \/ call'.op = "acquire_count" /\ Len(available) < call'.count]_vars

\* An acquire() that found two or more entries in the free list after the
\* pool had grown.
C18_Witness ==
    /\ pState = "live"
    /\ call.op = "acquire"
    /\ call.free >= 2
    /\ Len(available) = call.free - 1
    /\ Len(regions) > allocationAmount

\* C19: write_str(src, amount) writes exactly amount bytes at the cursor and
\* moves the cursor forward by amount whatever the length of src: the
\* characters of a shorter src are followed by zero bytes up to amount; of a
\* src of amount characters or more only the first amount are written and
\* no zero after them.  No other byte changes.
C19_WriteStrFixedWidth ==
    [][uCall'.op = "write_str" =>
          LET s == uCall'.src
              n == uCall'.amount
          IN  /\ writeDest' = writeDest + n
              /\ \A a \in Addr :
                    mem'[a] = IF writeDest <= a /\ a < writeDest + n
                              THEN IF a - writeDest < Len(s)
                                   THEN s[a - writeDest + 1]
                                   ELSE 0
                              ELSE mem[a]]_vars

\* A string shorter than amount by two or more was written: its first
\* character is where the cursor was and the last byte before the cursor is 0.
C19_Witness ==
    /\ uCall.op = "write_str"
    /\ Len(uCall.src) >= 1
    /\ uCall.amount >= Len(uCall.src) + 2
    /\ mem[writeDest - uCall.amount] = uCall.src[1]
    /\ mem[writeDest - 1] = 0

====
